---- MODULE Spec2Model ----
(***************************************************************************)
(* Model of the stable-gym environments: Oscillator, Ex3EKF (stable_gym    *)
(* and legacy simzoo) and Walker2dCost.                                    *)
(*                                                                         *)
(* Real numbers are fixed-point integers with S units per 1.0 (two         *)
(* decimals); products and quotients round towards minus infinity.  The    *)
(* seeded random source is a pair (seed, pos): a draw is a deterministic   *)
(* function of the seed and of the number of draws made so far.            *)
(*                                                                         *)
(* Spec drives one instance of one class through a few calls; SpecLong     *)
(* drives a default Oscillator through a long run of steps; SpecTwo drives *)
(* two Oscillator instances of one process in every interleaving.          *)
(***************************************************************************)
EXTENDS Integers, Sequences, FiniteSets, TLC

VARIABLES cls, instances, osc, ekf, sim, wlk, ret, hist, calls, twin, pair

vars == <<cls, instances, osc, ekf, sim, wlk, ret, hist, calls, twin, pair>>

\* ---------------------------------------------------------------- bounds
MaxCalls == 4
MaxLongSteps == 60

\* ----------------------------------------------------------- fixed point
S == 100
Pi == 314
TwoPi == 628
FreqScale == 1000
URes == 4

Mul(a, b) == (a * b) \div S
Div(a, b) == (a * S) \div b
Square(x) == (x * x) \div S
Max0(x) == IF x > 0 THEN x ELSE 0
ClipTo(x, lo, hi) == IF x < lo THEN lo ELSE IF x > hi THEN hi ELSE x

\* np.sin on a fixed-point angle in radians (Bhaskara's rational form on a
\* half wave, odd and 2*pi periodic).
HalfWave(y) == (16 * y * (Pi - y) * S) \div (5 * Pi * Pi - 4 * y * (Pi - y))
Sin(x) == LET r == x % TwoPi
          IN  IF r <= Pi THEN HalfWave(r) ELSE 0 - HalfWave(r - Pi)

\* ---------------------------------------------------------- random source
None == <<>>
NoSeed == -1
Seeds == {1}
EntropySeeds == {3}
NoRng == [seed |-> NoSeed, pos |-> 0]

\* Variant: a seed is taken only by a source that was never seeded.
SuperResetOnce(rng, seed) ==
    IF seed # NoSeed /\ rng.seed = NoSeed THEN [seed |-> seed, pos |-> 0] ELSE rng
\* gymnasium.Env.reset(seed=seed): a seed replaces the random source.
SuperReset(rng, seed) == IF seed # NoSeed THEN [seed |-> seed, pos |-> 0] ELSE rng
\* gymnasium.Env.np_random: created from OS entropy on first use.
NpRandom(rng, e) == IF rng.seed = NoSeed THEN [seed |-> e, pos |-> 0] ELSE rng
\* The k-th raw draw of a source, in 0..URes-1 (a fraction k/URes of [0,1)).
Raw(rng, k) == ((rng.seed + 1) * 7 + (rng.pos + k) * 3 + ((rng.pos + k) \div 2)) % URes
\* Generator.uniform(lo, hi) for the k-th draw from now.
Uniform(rng, k, lo, hi) == lo + ((hi - lo) * Raw(rng, k)) \div URes
Advance(rng, n) == [rng EXCEPT !.pos = @ + n]

\* Generator.normal(mean, std): the k-th draw, one of -1.5, -0.5, 0.5, 1.5 std.
Normal(rng, k, mean, std) == mean + Mul(std, ((2 * Raw(rng, k) - 3) * S) \div 2)
\* Variant: the success probability is taken as 1 - p.
BinomialComplement(rng, k, p) == IF (Raw(rng, k) * S) \div URes < S - p THEN 1 ELSE 0
\* Generator.binomial(1, p): 1 when the k-th draw falls below p.
Binomial(rng, k, p) == IF (Raw(rng, k) * S) \div URes < p THEN 1 ELSE 0

\* What a call returned; "warn" tells whether it logged the clip warning.
NoRet == [op |-> "none", ok |-> TRUE, err |-> "", action |-> <<>>, obs |-> <<>>,
          cost |-> 0, terminated |-> FALSE, truncated |-> FALSE, info |-> <<>>,
          warn |-> FALSE]
Failed(op, action, warn, msg) ==
    [NoRet EXCEPT !.op = op, !.ok = FALSE, !.err = msg, !.action = action,
                  !.warn = warn]

\* Box.contains for a vector against per-component bounds.
BoxContains(x, lo, hi) ==
    /\ Len(x) = Len(lo)
    /\ \A i \in 1..Len(x) : lo[i] <= x[i] /\ x[i] <= hi[i]
Zeros(n) == [i \in 1..n |-> 0]

RewardLow == 0
RewardHigh == 10000

\* ------------------------------------------------------------ Oscillator
OscDt == 100
K1 == 100
K2 == 100
K3 == 100
a1 == 160
a2 == 160
a3 == 160
gamma1 == 16
gamma2 == 16
gamma3 == 16
beta1 == 16
beta2 == 16
beta3 == 16
c1 == 6
c2 == 6
c3 == 6
b1 == 100
b2 == 100
b3 == 100
OscActLow == -500
OscActHigh == 500
OscObsLow == 0
OscObsHigh == 10000
OscErrLow == -10000
OscInitState == <<80, 150, 50, 330, 300, 300>>
OscInitLow == <<0, 0, 0, 0, 0, 0>>
OscInitHigh == <<500, 500, 500, 500, 500, 500>>

\* Oscillator.__init__ arguments, with the noise attributes delta1..delta6.
OscDefaults ==
    [reference_target_position |-> 800, reference_amplitude |-> 700,
     reference_frequency |-> 5, reference_phase_shift |-> 0,
     clip_action |-> TRUE, exclude_reference_from_observation |-> FALSE,
     exclude_reference_error_from_observation |-> TRUE,
     delta |-> <<0, 0, 0, 0, 0, 0>>]
OscArgs ==
    { OscDefaults,
      [OscDefaults EXCEPT !.clip_action = FALSE,
                          !.exclude_reference_error_from_observation = FALSE],
      [OscDefaults EXCEPT !.delta = <<400, 400, 400, 800, 800, 800>>,
                          !.exclude_reference_from_observation = TRUE,
                          !.exclude_reference_error_from_observation = FALSE],
      [OscDefaults EXCEPT !.reference_amplitude = 0,
                          !.exclude_reference_from_observation = TRUE],
      [OscDefaults EXCEPT !.exclude_reference_from_observation = TRUE],
      [OscDefaults EXCEPT !.reference_frequency = -5] }

\* Variant: the frequency is not looked at.
OscArgsValidAnyFrequency(a) ==
    (a.reference_amplitude = 0 \/ a.reference_frequency = 0)
      \/ ~(a.exclude_reference_from_observation
           /\ a.exclude_reference_error_from_observation)
OscArgsValid(a) ==
    /\ (a.reference_amplitude = 0 \/ a.reference_frequency = 0)
         \/ ~(a.exclude_reference_from_observation
              /\ a.exclude_reference_error_from_observation)
    /\ a.reference_frequency >= 0

\* Variant: the constructor already installs the fixed initial state.
OscNewReady(a, id) ==
    [state |-> OscInitState, t |-> 0, warned |-> FALSE, nwarn |-> 0, rng |-> NoRng,
     clip |-> a.clip_action,
     exR |-> a.exclude_reference_from_observation,
     exE |-> a.exclude_reference_error_from_observation,
     target |-> a.reference_target_position,
     amp |-> a.reference_amplitude,
     freq |-> a.reference_frequency,
     phase |-> a.reference_phase_shift,
     delta |-> a.delta,
     instance_id |-> id]
OscNew(a, id) ==
    [state |-> None, t |-> 0, warned |-> FALSE, nwarn |-> 0, rng |-> NoRng,
     clip |-> a.clip_action,
     exR |-> a.exclude_reference_from_observation,
     exE |-> a.exclude_reference_error_from_observation,
     target |-> a.reference_target_position,
     amp |-> a.reference_amplitude,
     freq |-> a.reference_frequency,
     phase |-> a.reference_phase_shift,
     delta |-> a.delta,
     instance_id |-> id]

OscObsSpaceLow(env) ==
    <<OscObsLow, OscObsLow, OscObsLow, OscObsLow, OscObsLow, OscObsLow>>
      \o (IF ~env.exR THEN <<OscObsLow>> ELSE <<>>)
      \o (IF ~env.exE THEN <<OscErrLow>> ELSE <<>>)
OscObsSpaceHigh(env) ==
    <<OscObsHigh, OscObsHigh, OscObsHigh, OscObsHigh, OscObsHigh, OscObsHigh>>
      \o (IF ~env.exR THEN <<OscObsHigh>> ELSE <<>>)
      \o (IF ~env.exE THEN <<OscObsHigh>> ELSE <<>>)

OscActionContains(action) ==
    BoxContains(action, <<OscActLow, OscActLow, OscActLow>>,
                        <<OscActHigh, OscActHigh, OscActHigh>>)
OscClip(action) == [i \in 1..3 |-> ClipTo(action[i], OscActLow, OscActHigh)]

\* Variant: the warning does not look at the flag.
OscWarnAlways(env, action) == env.clip /\ ~OscActionContains(action)
\* Whether this step logs the clip warning.
OscWarnNow(env, action) ==
    env.clip /\ ~OscActionContains(action) /\ ~env.warned
\* Whether the action passes the bounds assertion (made only without clipping).
OscActionAccepted(env, action) == env.clip \/ OscActionContains(action)
\* Variant: the action is used unclipped.
OscControlRaw(env, action) == action
\* The control input u1, u2, u3 the dynamics use.
OscControl(env, action) == IF env.clip THEN OscClip(action) ELSE action

OscReference(env, t) ==
    env.target
      + Mul(env.amp, Sin((TwoPi * env.freq * t) \div (FreqScale * S) - env.phase))

\* Variant: the signed error instead of its square.
OscCostSigned(p1, r1) == p1 - r1
OscCost(p1, r1) == Square(p1 - r1)
\* Variant: the band is taken as open.
OscTerminatedOpenBand(cost) == cost <= RewardLow \/ cost >= RewardHigh
OscTerminated(cost) == cost < RewardLow \/ cost > RewardHigh

\* Variant: the noise is added after the clamp.
OscClampThenNoise(x, xdot, noise) == Max0(x + Mul(xdot, OscDt)) + noise
\* np.max([x + x_dot * dt + uniform(-delta, delta), 0])
OscClamp(x, xdot, noise) == Max0(x + Mul(xdot, OscDt) + noise)

\* Variant: the reference error is appended before the reference.
OscObsErrorFirst(env, st, r1) ==
    st \o (IF ~env.exE THEN <<st[4] - r1>> ELSE <<>>)
       \o (IF ~env.exR THEN <<r1>> ELSE <<>>)
OscObs(env, st, r1) ==
    st \o (IF ~env.exR THEN <<r1>> ELSE <<>>)
       \o (IF ~env.exE THEN <<st[4] - r1>> ELSE <<>>)
\* Variant: the error is taken as reference minus state of interest.
OscInfoErrorFlipped(st, r1) ==
    [reference |-> r1, state_of_interest |-> st[4], reference_error |-> r1 - st[4]]
OscInfo(st, r1) ==
    [reference |-> r1, state_of_interest |-> st[4], reference_error |-> st[4] - r1]

\* Variant: the proteins are advanced on the already advanced mRNAs.
OscDynamicsSequential(env, u, rng) ==
    LET m1 == env.state[1]
        m2 == env.state[2]
        m3 == env.state[3]
        p1 == env.state[4]
        p2 == env.state[5]
        p3 == env.state[6]
        n(k) == Uniform(rng, k - 1, 0 - env.delta[k], env.delta[k])
        m1_dot == 0 - Mul(gamma1, m1) + Div(a1, K1 + Square(p3)) + Mul(b1, u[1])
        m2_dot == 0 - Mul(gamma2, m2) + Div(a2, K2 + Square(p1)) + Mul(b2, u[2])
        m3_dot == 0 - Mul(gamma3, m3) + Div(a3, K3 + Square(p2)) + Mul(b3, u[3])
        m1_new == OscClamp(m1, m1_dot, n(1))
        m2_new == OscClamp(m2, m2_dot, n(2))
        m3_new == OscClamp(m3, m3_dot, n(3))
        p1_dot == 0 - Mul(c1, p1) + Mul(beta1, m1_new)
        p2_dot == 0 - Mul(c2, p2) + Mul(beta2, m2_new)
        p3_dot == 0 - Mul(c3, p3) + Mul(beta3, m3_new)
    IN  <<m1_new, m2_new, m3_new, OscClamp(p1, p1_dot, n(4)),
          OscClamp(p2, p2_dot, n(5)), OscClamp(p3, p3_dot, n(6))>>
\* The next state vector of Oscillator.step for control input u.
OscDynamics(env, u, rng) ==
    LET m1 == env.state[1]
        m2 == env.state[2]
        m3 == env.state[3]
        p1 == env.state[4]
        p2 == env.state[5]
        p3 == env.state[6]
        m1_dot == 0 - Mul(gamma1, m1) + Div(a1, K1 + Square(p3)) + Mul(b1, u[1])
        m2_dot == 0 - Mul(gamma2, m2) + Div(a2, K2 + Square(p1)) + Mul(b2, u[2])
        m3_dot == 0 - Mul(gamma3, m3) + Div(a3, K3 + Square(p2)) + Mul(b3, u[3])
        p1_dot == 0 - Mul(c1, p1) + Mul(beta1, m1)
        p2_dot == 0 - Mul(c2, p2) + Mul(beta2, m2)
        p3_dot == 0 - Mul(c3, p3) + Mul(beta3, m3)
        n(k) == Uniform(rng, k - 1, 0 - env.delta[k], env.delta[k])
    IN  <<OscClamp(m1, m1_dot, n(1)), OscClamp(m2, m2_dot, n(2)),
          OscClamp(m3, m3_dot, n(3)), OscClamp(p1, p1_dot, n(4)),
          OscClamp(p2, p2_dot, n(5)), OscClamp(p3, p3_dot, n(6))>>

OscTick(env) == env.t + OscDt
\* Variant: every step reports a truncation.
OscTruncatedAlways == TRUE
\* The truncated flag a step returns.
OscTruncated == FALSE
\* Variant: reset leaves the time as it is.
OscResetTimeKept(env) == env.t
OscResetTime(env) == 0

\* Oscillator.step(action): the instance after the call and what it returns.
OscStep(env, action, e) ==
    LET warnNow == OscWarnNow(env, action)
        env1 == [env EXCEPT !.warned = @ \/ warnNow,
                            !.nwarn = @ + (IF warnNow THEN 1 ELSE 0)]
    IN  IF ~OscActionAccepted(env, action)
        THEN [env |-> env, ret |-> Failed("step", action, FALSE, "AssertionError")]
        ELSE IF env.state = None
        THEN [env |-> env1, ret |-> Failed("step", action, warnNow, "AssertionError")]
        ELSE
          LET rng == NpRandom(env.rng, e)
              st == OscDynamics(env, OscControl(env, action), rng)
              t == OscTick(env)
              r1 == OscReference(env, t)
              cost == OscCost(st[4], r1)
          IN  [env |-> [env1 EXCEPT !.state = st, !.t = t, !.rng = Advance(rng, 6)],
               ret |-> [op |-> "step", ok |-> TRUE, err |-> "", action |-> action,
                        obs |-> OscObs(env, st, r1), cost |-> cost,
                        terminated |-> OscTerminated(cost), truncated |-> OscTruncated,
                        info |-> OscInfo(st, r1), warn |-> warnNow]]

\* options of reset: None, or a dict that may hold "low" and "high".
NoOptions == [hasLow |-> FALSE, low |-> <<>>, hasHigh |-> FALSE, high |-> <<>>]
Point(v) == [hasLow |-> TRUE, low |-> v, hasHigh |-> TRUE, high |-> v]
OscOptions ==
    { NoOptions,
      Point(<<219, 100, 100, 1900, 100, 100>>),
      Point(<<432, 100, 100, 800, 100, 100>>),
      Point(<<10000, 10000, 10000, 10000, 10000, 10000>>),
      [NoOptions EXCEPT !.hasLow = TRUE, !.low = <<-100, 0, 0, 0, 0, 0>>],
      [NoOptions EXCEPT !.hasHigh = TRUE, !.high = <<500, 500, 500, 500, 500, 10100>>] }

\* observation_space.contains(np.append(bound, zeros(shape - len(bound))))
OscBoundValid(env, bound) ==
    BoxContains(bound \o Zeros(Len(OscObsSpaceLow(env)) - Len(bound)),
                OscObsSpaceLow(env), OscObsSpaceHigh(env))

\* Oscillator.reset(seed, options, random)
OscReset(env, seed, options, random, e) ==
    LET rng0 == SuperReset(env.rng, seed)
        env0 == [env EXCEPT !.rng = rng0]
        low == IF options.hasLow THEN options.low ELSE OscInitLow
        high == IF options.hasHigh THEN options.high ELSE OscInitHigh
    IN  IF ~(OscBoundValid(env, low) /\ OscBoundValid(env, high))
        THEN [env |-> env0, ret |-> Failed("reset", <<>>, FALSE, "AssertionError")]
        ELSE
          LET rng == IF random THEN NpRandom(rng0, e) ELSE rng0
              st == IF random
                    THEN [i \in 1..6 |-> Uniform(rng, i - 1, low[i], high[i])]
                    ELSE OscInitState
              t == OscResetTime(env)
              r1 == OscReference(env, t)
          IN  [env |-> [env0 EXCEPT !.state = st, !.t = t,
                                    !.rng = IF random THEN Advance(rng, 6) ELSE rng],
               ret |-> [NoRet EXCEPT !.op = "reset", !.obs = OscObs(env, st, r1),
                                     !.info = OscInfo(st, r1)]]

\* Variant: render returns without doing anything.
OscRenderSilent(env) == [env |-> env, ret |-> [NoRet EXCEPT !.op = "render"]]
\* Oscillator.render(mode)
OscRender(env) ==
    [env |-> env, ret |-> Failed("render", <<>>, FALSE, "NotImplementedError")]

\* ---------------------------------------------------- Ex3EKF (stable_gym)
EkfDt == 10
q1 == 1
g == 981
l_net == 100
mean1 == <<0, 0>>
\* Standard deviations of the process noise: the square roots of the diagonal
\* of cov1 (1/3 dt^3 q1 and dt q1), to two decimals.
EkfStd1 == 0
EkfStd2 == 3
mean2 == 0
cov2 == 1
\* np.sqrt(cov2)
EkfStdY == 10
HalfPi == 157
QuarterPi == 78
EkfActLow == -1000
EkfActHigh == 1000

\* Ex3EKF.__init__(clipped_action) with the attribute missing_rate (in 1/S).
EkfArgs == [clipped_action : BOOLEAN, missing_rate : {0, 50}]

EkfNew(a) ==
    [state |-> None, t |-> 0, warned |-> FALSE, nwarn |-> 0, rng |-> NoRng,
     clipped |-> a.clipped_action, missing_rate |-> a.missing_rate,
     output |-> None, flag |-> None]

EkfBelow(action) == \E i \in 1..Len(action) : action[i] < EkfActLow
EkfAbove(action) == \E i \in 1..Len(action) : action[i] > EkfActHigh
EkfClip(action) == [i \in 1..2 |-> ClipTo(action[i], EkfActLow, EkfActHigh)]

\* The condition of the clip warning: "or" binds weaker than "and".
EkfWarnNow(env, action) ==
    env.clipped /\ (EkfBelow(action) \/ (EkfAbove(action) /\ ~env.warned))
\* The control input u1, u2 of the estimator update.
EkfControl(env, action) == IF env.clipped THEN EkfClip(action) ELSE action

Cos(x) == Sin(x + HalfPi)
EkfInput(t) == Mul(Mul(0, Cos(t)), EkfDt)

\* Ex3EKF.reference(x): the k-th draw is the observation noise.
EkfReference(x, rng, k) == Sin(x) + Normal(rng, k, mean2, EkfStdY)

EkfCost(hat_x_1, hat_x_2, x_1, x_2) == Square(hat_x_1 - x_1) + Square(hat_x_2 - x_2)
EkfTerminated(cost) == cost < RewardLow \/ cost > RewardHigh

EkfInfo(st, y_1) ==
    [reference |-> y_1, state_of_interest |-> <<st[1] - st[3], st[2] - st[4]>>]

\* Variant: the master system is driven by the estimated frequency.
EkfMasterDriven(st, t, rng) ==
    LET x_1 == st[3] + Mul(EkfDt, st[2])
        x_2 == st[4] - Mul(Mul(Mul(g, l_net), Sin(x_1)), EkfDt) + EkfInput(t)
    IN  <<x_1 + Normal(rng, 0, mean1[1], EkfStd1),
          x_2 + Normal(rng, 1, mean1[2], EkfStd2)>>
\* Master system: x_2 is integrated on the already advanced x_1, then the
\* process noise is added (draws 0 and 1).
EkfMaster(st, t, rng) ==
    LET x_1 == st[3] + Mul(EkfDt, st[4])
        x_2 == st[4] - Mul(Mul(Mul(g, l_net), Sin(x_1)), EkfDt) + EkfInput(t)
    IN  <<x_1 + Normal(rng, 0, mean1[1], EkfStd1),
          x_2 + Normal(rng, 1, mean1[2], EkfStd2)>>

\* Estimator: corrected by the innovation when the packet arrived (flag = 1),
\* open loop otherwise.
EkfEstimator(st, u, y_1, flag, t) ==
    LET hat_y_1 == Sin(st[1] + Mul(EkfDt, st[2]))
        hat_x_1 == IF flag = 1
                   THEN st[1] + Mul(EkfDt, st[2]) + Mul(Mul(EkfDt, u[1]), y_1 - hat_y_1)
                   ELSE st[1] + Mul(EkfDt, st[2])
        hat_x_2 == IF flag = 1
                   THEN st[2] - Mul(Mul(g, Sin(hat_x_1)), EkfDt)
                          + Mul(Mul(EkfDt, u[2]), y_1 - hat_y_1) + EkfInput(t)
                   ELSE st[2] - Mul(Mul(g, Sin(hat_x_1)), EkfDt) + EkfInput(t)
    IN  <<hat_x_1, hat_x_2>>

\* The body of step after the action handling, shared by both Ex3EKF classes:
\* draws 0-1 process noise, 2 observation noise, 3 packet indicator (kept in
\* "flag" for inspection).
EkfAdvance(env, u, rng) ==
    LET x == EkfMaster(env.state, env.t, rng)
        y_1 == EkfReference(x[1], rng, 2)
        flag == Binomial(rng, 3, S - env.missing_rate)
        hat == EkfEstimator(env.state, u, y_1, flag, env.t)
    IN  [state |-> <<hat[1], hat[2], x[1], x[2]>>, output |-> y_1, flag |-> flag,
         cost |-> EkfCost(hat[1], hat[2], x[1], x[2])]

\* Ex3EKF.step(action)
EkfStep(env, action, e) ==
    LET warnNow == EkfWarnNow(env, action)
        env1 == [env EXCEPT !.warned = @ \/ warnNow,
                            !.nwarn = @ + (IF warnNow THEN 1 ELSE 0)]
    IN  IF env.state = None
        THEN [env |-> env1, ret |-> Failed("step", action, warnNow, "TypeError")]
        ELSE
          LET rng == NpRandom(env.rng, e)
              r == EkfAdvance(env, EkfControl(env, action), rng)
          IN  [env |-> [env1 EXCEPT !.state = r.state, !.output = <<r.output>>, !.flag = <<r.flag>>,
                                    !.t = env.t + EkfDt, !.rng = Advance(rng, 4)],
               ret |-> [op |-> "step", ok |-> TRUE, err |-> "", action |-> action,
                        obs |-> r.state, cost |-> r.cost,
                        terminated |-> EkfTerminated(r.cost), truncated |-> FALSE,
                        info |-> EkfInfo(r.state, r.output), warn |-> warnNow]]

\* The initial state drawn by reset: draws 0-3, draw 4 is the reference noise.
EkfInitial(rng) ==
    LET x_1 == Uniform(rng, 0, 0 - HalfPi, HalfPi)
        x_2 == Uniform(rng, 1, 0 - HalfPi, HalfPi)
        hat_x_1 == x_1 + Uniform(rng, 2, 0 - QuarterPi, QuarterPi)
        hat_x_2 == x_2 + Uniform(rng, 3, 0 - QuarterPi, QuarterPi)
    IN  <<hat_x_1, hat_x_2, x_1, x_2>>

\* Ex3EKF.reset(seed, options)
EkfReset(env, seed, e) ==
    LET rng == NpRandom(SuperReset(env.rng, seed), e)
        st == EkfInitial(rng)
        y_1 == EkfReference(st[3], rng, 4)
    IN  [env |-> [env EXCEPT !.state = st, !.output = <<y_1>>, !.t = 0,
                             !.rng = Advance(rng, 5)],
         ret |-> [NoRet EXCEPT !.op = "reset", !.obs = st, !.info = EkfInfo(st, y_1)]]

\* Ex3EKF.render(mode)
EkfRender(env) ==
    [env |-> env, ret |-> Failed("render", <<>>, FALSE, "NotImplementedError")]

\* ------------------------------------------------------- Ex3EKF (simzoo)
SimSeed == 400

\* Ex3EKF.__init__(seed=400): the constructor seeds the random source.
SimNew ==
    [state |-> None, t |-> 0, rng |-> [seed |-> SimSeed, pos |-> 0],
     missing_rate |-> 0, output |-> None, flag |-> None]

\* reward_range is a Box here; the test is the same band.
SimDone(cost) == cost > RewardHigh \/ cost < RewardLow

\* Ex3EKF.step(action): the action is used as it is.
SimStep(env, action) ==
    IF env.state = None
    THEN [env |-> env, ret |-> Failed("step", action, FALSE, "TypeError")]
    ELSE
      LET r == EkfAdvance(env, action, env.rng)
      IN  [env |-> [env EXCEPT !.state = r.state, !.output = <<r.output>>, !.flag = <<r.flag>>,
                               !.t = env.t + EkfDt, !.rng = Advance(env.rng, 4)],
           ret |-> [op |-> "step", ok |-> TRUE, err |-> "", action |-> action,
                    obs |-> r.state, cost |-> r.cost,
                    terminated |-> SimDone(r.cost), truncated |-> FALSE,
                    info |-> EkfInfo(r.state, r.output), warn |-> FALSE]]

\* Ex3EKF.reset(): draws a state and an output; the time is left as it is.
SimReset(env) ==
    LET st == EkfInitial(env.rng)
        y_1 == EkfReference(st[3], env.rng, 4)
    IN  [env |-> [env EXCEPT !.state = st, !.output = <<y_1>>,
                             !.rng = Advance(env.rng, 5)],
         ret |-> [NoRet EXCEPT !.op = "reset", !.obs = st]]

\* Ex3EKF.render(mode)
SimRender(env) ==
    [env |-> env, ret |-> Failed("render", <<>>, FALSE, "NotImplementedError")]

\* ---------------------------------------------------------- Walker2dCost
\* The host Walker2dEnv is seen through what it hands back: the torso height
\* z and angle (which decide is_healthy), and the x velocity of a step.
WlkInitZ == 125
\* reset_noise_scale, in the smallest unit the fixed point has.
WlkNoise == 1
WlkHostZ == {50, 125}
WlkHostVel == {-100, 0, 100, 300}
WlkActions == {<<0, 0, 0, 0, 0, 0>>, <<100, -100, 50, 0, 0, 0>>}

WlkDefaults ==
    [reference_forward_velocity |-> 100,
     randomise_reference_forward_velocity |-> FALSE,
     randomise_reference_forward_velocity_range |-> <<50, 150>>,
     forward_velocity_weight |-> 100,
     include_ctrl_cost |-> FALSE,
     include_health_penalty |-> TRUE,
     health_penalty_size |-> 1000,
     ctrl_cost_weight |-> 0,
     terminate_when_unhealthy |-> TRUE,
     healthy_z_range |-> <<80, 200>>,
     healthy_angle_range |-> <<-100, 100>>,
     exclude_reference_from_observation |-> FALSE,
     exclude_reference_error_from_observation |-> TRUE,
     exclude_x_velocity_from_observation |-> FALSE]
WlkArgs ==
    { WlkDefaults,
      [WlkDefaults EXCEPT !.include_ctrl_cost = TRUE, !.ctrl_cost_weight = 10,
                          !.terminate_when_unhealthy = FALSE],
      [WlkDefaults EXCEPT !.randomise_reference_forward_velocity = TRUE],
      [WlkDefaults EXCEPT !.forward_velocity_weight = -100],
      [WlkDefaults EXCEPT !.forward_velocity_weight = 3000],
      [WlkDefaults EXCEPT !.include_ctrl_cost = TRUE, !.ctrl_cost_weight = -10,
                          !.include_health_penalty = FALSE] }

WlkNew(a) ==
    [cfg |-> a, reference_forward_velocity |-> a.reference_forward_velocity,
     state |-> None, z |-> WlkInitZ, angle |-> 0, rng |-> NoRng]

\* Walker2dEnv.is_healthy
WlkIsHealthy(env) ==
    /\ env.cfg.healthy_z_range[1] < env.z /\ env.z < env.cfg.healthy_z_range[2]
    /\ env.cfg.healthy_angle_range[1] < env.angle
    /\ env.angle < env.cfg.healthy_angle_range[2]
\* Walker2dEnv.terminated
WlkHostTerminated(env) ==
    IF env.cfg.terminate_when_unhealthy THEN ~WlkIsHealthy(env) ELSE FALSE

RECURSIVE SumSquares(_)
SumSquares(v) == IF v = <<>> THEN 0 ELSE Square(Head(v)) + SumSquares(Tail(v))
\* Walker2dEnv.control_cost(action)
WlkControlCost(env, action) == Mul(env.cfg.ctrl_cost_weight, SumSquares(action))

\* Variant: the health penalty does not look at include_health_penalty.
WlkCostAlwaysPenalised(env, x_velocity, ctrl_cost) ==
    LET velocity_cost == Mul(env.cfg.forward_velocity_weight,
                             Square(x_velocity - env.reference_forward_velocity))
        health_penalty == IF ~WlkIsHealthy(env)
                          THEN env.cfg.health_penalty_size ELSE 0
    IN  [cost |-> velocity_cost
                    + (IF env.cfg.include_ctrl_cost THEN ctrl_cost ELSE 0)
                    + health_penalty,
         info |-> [cost_velocity |-> velocity_cost, cost_ctrl |-> ctrl_cost,
                   penalty_health |-> health_penalty]]
\* Walker2dCost.cost(x_velocity, ctrl_cost): the cost and its info.
WlkCost(env, x_velocity, ctrl_cost) ==
    LET velocity_cost == Mul(env.cfg.forward_velocity_weight,
                             Square(x_velocity - env.reference_forward_velocity))
        health_penalty == IF env.cfg.include_health_penalty /\ ~WlkIsHealthy(env)
                          THEN env.cfg.health_penalty_size ELSE 0
    IN  [cost |-> velocity_cost
                    + (IF env.cfg.include_ctrl_cost THEN ctrl_cost ELSE 0)
                    + health_penalty,
         info |-> [cost_velocity |-> velocity_cost, cost_ctrl |-> ctrl_cost,
                   penalty_health |-> health_penalty]]

\* Walker2dEnv.reset(seed): the initial pose perturbed by two draws.
WlkHostReset(env, seed, e) ==
    LET rng == NpRandom(SuperReset(env.rng, seed), e)
        z == WlkInitZ + Uniform(rng, 0, 0 - WlkNoise, WlkNoise)
        angle == Uniform(rng, 1, 0 - WlkNoise, WlkNoise)
    IN  [env |-> [env EXCEPT !.z = z, !.angle = angle, !.rng = Advance(rng, 2)],
         ret |-> [NoRet EXCEPT !.op = "reset", !.obs = <<z, angle>>]]
\* Walker2dEnv.step(action): the simulation ends the step at height z moving
\* at x_velocity.
WlkHostStep(env, action, z, x_velocity) ==
    LET env1 == [env EXCEPT !.z = z]
    IN  [env |-> env1,
         ret |-> [NoRet EXCEPT !.op = "step", !.action = action,
                               !.obs = <<z, env1.angle>>,
                               !.terminated = WlkHostTerminated(env1),
                               !.info = [x_velocity |-> x_velocity]]]

\* Variant: the added entries are put in front of the host observation.
WlkExtendInFront(env, obs, x_velocity) ==
    (IF ~env.cfg.exclude_reference_from_observation
     THEN <<env.reference_forward_velocity>> ELSE <<>>)
      \o (IF ~env.cfg.exclude_reference_error_from_observation
          THEN <<x_velocity - env.reference_forward_velocity>> ELSE <<>>)
      \o (IF ~env.cfg.exclude_x_velocity_from_observation
          THEN <<x_velocity>> ELSE <<>>)
      \o obs
\* The entries the cost environment appends to the host observation.
WlkExtend(env, obs, x_velocity) ==
    obs \o (IF ~env.cfg.exclude_reference_from_observation
            THEN <<env.reference_forward_velocity>> ELSE <<>>)
        \o (IF ~env.cfg.exclude_reference_error_from_observation
            THEN <<x_velocity - env.reference_forward_velocity>> ELSE <<>>)
        \o (IF ~env.cfg.exclude_x_velocity_from_observation
            THEN <<x_velocity>> ELSE <<>>)

WlkInfo(env, cost_info, x_velocity) ==
    [cost_velocity |-> cost_info.cost_velocity, cost_ctrl |-> cost_info.cost_ctrl,
     penalty_health |-> cost_info.penalty_health,
     reference |-> env.reference_forward_velocity,
     state_of_interest |-> x_velocity,
     reference_error |-> x_velocity - env.reference_forward_velocity]

\* Walker2dCost.step(action); the host step ends at height z with x_velocity.
WlkStep(env, action, z, x_velocity) ==
    LET h == WlkHostStep(env, action, z, x_velocity)
        env1 == h.env
        c == WlkCost(env1, h.ret.info.x_velocity, WlkControlCost(env1, action))
        obs == WlkExtend(env1, h.ret.obs, h.ret.info.x_velocity)
    IN  [env |-> [env1 EXCEPT !.state = obs],
         ret |-> [op |-> "step", ok |-> TRUE, err |-> "", action |-> action,
                  obs |-> obs, cost |-> c.cost,
                  terminated |-> h.ret.terminated, truncated |-> h.ret.truncated,
                  info |-> WlkInfo(env1, c.info, h.ret.info.x_velocity),
                  warn |-> FALSE]]

\* Variant: the reference is redrawn whether or not randomisation is on.
WlkReferenceAlwaysDrawn(env, rng) ==
    Uniform(rng, 0, env.cfg.randomise_reference_forward_velocity_range[1],
                    env.cfg.randomise_reference_forward_velocity_range[2])
\* The reference forward velocity after a reset: the next draw of the source
\* when randomised.
WlkReference(env, rng) ==
    IF env.cfg.randomise_reference_forward_velocity
    THEN Uniform(rng, 0, env.cfg.randomise_reference_forward_velocity_range[1],
                         env.cfg.randomise_reference_forward_velocity_range[2])
    ELSE env.reference_forward_velocity

\* Walker2dCost.reset(seed, options): the host reset comes first, and the cost
\* info is computed before the reference velocity is redrawn.
WlkReset(env, seed, e) ==
    LET h == WlkHostReset(env, seed, e)
        env1 == h.env
        c == WlkCost(env1, 0, 0)
        rnd == env.cfg.randomise_reference_forward_velocity
        env2 == [env1 EXCEPT
                   !.reference_forward_velocity = WlkReference(env1, env1.rng),
                   !.rng = Advance(@, IF rnd THEN 1 ELSE 0)]
        obs == WlkExtend(env2, h.ret.obs, 0)
    IN  [env |-> [env2 EXCEPT !.state = obs],
         ret |-> [NoRet EXCEPT !.op = "reset", !.obs = obs,
                               !.info = WlkInfo(env2, c.info, 0)]]

\* -------------------------------------------------------------- actions
OscActions == {<<0, 0, 0>>, <<500, 500, 500>>, <<-500, 0, 300>>, <<700, -900, 0>>}
EkfActions == {<<0, 0>>, <<1000, -1000>>, <<-1100, 0>>, <<0, 50000>>}
SeedArgs == {NoSeed} \cup Seeds

\* Ghost record: reset calls made on the instance, successful steps since its
\* last successful reset, and whether one of those steps returned terminated.
NoHist == [resets |-> 0, steps |-> 0, term |-> FALSE]
Record(r) ==
    IF r.op = "reset"
    THEN [resets |-> hist.resets + 1, steps |-> IF r.ok THEN 0 ELSE hist.steps,
          term |-> IF r.ok THEN FALSE ELSE hist.term]
    ELSE [hist EXCEPT !.steps = @ + (IF r.op = "step" /\ r.ok THEN 1 ELSE 0),
                      !.term = @ \/ (r.op = "step" /\ r.ok /\ r.terminated)]

\* A second run, for comparison: an instance newly constructed with the same
\* arguments, given the last seeded reset and every action since.  For
\* Walker2dCost the second instance is the host Walker2dEnv on its own.
NoTwin == [on |-> FALSE, env |-> <<>>, ret |-> NoRet]
Replay(q) == [on |-> TRUE, env |-> q.env, ret |-> q.ret]
OscAsNew(env) ==
    [env EXCEPT !.state = None, !.t = 0, !.warned = FALSE, !.nwarn = 0,
                !.rng = NoRng]
EkfAsNew(env) ==
    [env EXCEPT !.state = None, !.t = 0, !.warned = FALSE, !.nwarn = 0,
                !.rng = NoRng, !.output = None, !.flag = None]

\* Two Oscillator instances of one process ("inst"), what the last call on each
\* returned ("out"), and for comparison the same two instances each driven
\* alone with the calls made on it ("solo", "soloOut"); "args" and "rejected"
\* tell about the last constructor call.
NoPair ==
    [n |-> 0, last |-> 0, args |-> OscDefaults, rejected |-> FALSE,
     inst |-> <<OscNew(OscDefaults, 0), OscNew(OscDefaults, 0)>>,
     out |-> <<NoRet, NoRet>>,
     solo |-> <<OscNew(OscDefaults, 0), OscNew(OscDefaults, 0)>>,
     soloOut |-> <<NoRet, NoRet>>]

Init ==
    /\ cls = "none"
    /\ instances = 0
    /\ osc = OscNew(OscDefaults, 0)
    /\ ekf = EkfNew([clipped_action |-> TRUE, missing_rate |-> 0])
    /\ sim = SimNew
    /\ wlk = WlkNew(WlkDefaults)
    /\ ret = NoRet
    /\ hist = NoHist
    /\ calls = 0
    /\ twin = NoTwin
    /\ pair = NoPair

\* Oscillator(**args): a rejected construction raises before the counter moves.
OscConstruct ==
    /\ cls = "none"
    /\ \E a \in OscArgs :
         IF OscArgsValid(a)
         THEN /\ cls' = "osc"
              /\ instances' = instances + 1
              /\ osc' = OscNew(a, instances + 1)
              /\ ret' = [NoRet EXCEPT !.op = "init"]
         ELSE /\ ret' = Failed("init", <<>>, FALSE, "AssertionError")
              /\ UNCHANGED <<cls, instances, osc>>
    /\ UNCHANGED <<ekf, sim, wlk, hist, calls, twin, pair>>

OscStepCall ==
    /\ cls = "osc"
    /\ calls < MaxCalls
    /\ \E action \in OscActions, e \in EntropySeeds :
         LET r == OscStep(osc, action, e)
         IN  /\ osc' = r.env /\ ret' = r.ret /\ hist' = Record(r.ret)
             /\ twin' = IF twin.on THEN Replay(OscStep(twin.env, action, e))
                                   ELSE twin
    /\ calls' = calls + 1
    /\ UNCHANGED <<cls, instances, ekf, sim, wlk, pair>>

OscResetCall ==
    /\ cls = "osc"
    /\ calls < MaxCalls
    /\ \E seed \in SeedArgs, options \in OscOptions, random \in BOOLEAN,
          e \in EntropySeeds :
         LET r == OscReset(osc, seed, options, random, e)
         IN  /\ osc' = r.env /\ ret' = r.ret /\ hist' = Record(r.ret)
             /\ twin' = IF seed # NoSeed /\ r.ret.ok
                        THEN Replay(OscReset(OscAsNew(osc), seed, options, random, e))
                        ELSE NoTwin
    /\ calls' = calls + 1
    /\ UNCHANGED <<cls, instances, ekf, sim, wlk, pair>>

OscRenderCall ==
    /\ cls = "osc"
    /\ calls < MaxCalls
    /\ LET r == OscRender(osc)
       IN  /\ osc' = r.env /\ ret' = r.ret /\ hist' = Record(r.ret)
           /\ twin' = IF twin.on THEN Replay(OscRender(twin.env)) ELSE twin
    /\ calls' = calls + 1
    /\ UNCHANGED <<cls, instances, ekf, sim, wlk, pair>>

EkfConstruct ==
    /\ cls = "none"
    /\ \E a \in EkfArgs : ekf' = EkfNew(a)
    /\ cls' = "ekf"
    /\ ret' = [NoRet EXCEPT !.op = "init"]
    /\ UNCHANGED <<instances, osc, sim, wlk, hist, calls, twin, pair>>

EkfStepCall ==
    /\ cls = "ekf"
    /\ calls < MaxCalls
    /\ \E action \in EkfActions, e \in EntropySeeds :
         LET r == EkfStep(ekf, action, e)
         IN  /\ ekf' = r.env /\ ret' = r.ret /\ hist' = Record(r.ret)
             /\ twin' = IF twin.on THEN Replay(EkfStep(twin.env, action, e))
                                   ELSE twin
    /\ calls' = calls + 1
    /\ UNCHANGED <<cls, instances, osc, sim, wlk, pair>>

EkfResetCall ==
    /\ cls = "ekf"
    /\ calls < MaxCalls
    /\ \E seed \in SeedArgs, e \in EntropySeeds :
         LET r == EkfReset(ekf, seed, e)
         IN  /\ ekf' = r.env /\ ret' = r.ret /\ hist' = Record(r.ret)
             /\ twin' = IF seed # NoSeed
                        THEN Replay(EkfReset(EkfAsNew(ekf), seed, e))
                        ELSE NoTwin
    /\ calls' = calls + 1
    /\ UNCHANGED <<cls, instances, osc, sim, wlk, pair>>

EkfRenderCall ==
    /\ cls = "ekf"
    /\ calls < MaxCalls
    /\ LET r == EkfRender(ekf)
       IN  /\ ekf' = r.env /\ ret' = r.ret /\ hist' = Record(r.ret)
           /\ twin' = IF twin.on THEN Replay(EkfRender(twin.env)) ELSE twin
    /\ calls' = calls + 1
    /\ UNCHANGED <<cls, instances, osc, sim, wlk, pair>>

SimConstruct ==
    /\ cls = "none"
    /\ sim' = SimNew
    /\ cls' = "sim"
    /\ ret' = [NoRet EXCEPT !.op = "init"]
    /\ UNCHANGED <<instances, osc, ekf, wlk, hist, calls, twin, pair>>

SimStepCall ==
    /\ cls = "sim"
    /\ calls < MaxCalls
    /\ \E action \in EkfActions :
         LET r == SimStep(sim, action)
         IN  sim' = r.env /\ ret' = r.ret /\ hist' = Record(r.ret)
    /\ calls' = calls + 1
    /\ UNCHANGED <<cls, instances, osc, ekf, wlk, twin, pair>>

SimResetCall ==
    /\ cls = "sim"
    /\ calls < MaxCalls
    /\ LET r == SimReset(sim)
       IN  sim' = r.env /\ ret' = r.ret /\ hist' = Record(r.ret)
    /\ calls' = calls + 1
    /\ UNCHANGED <<cls, instances, osc, ekf, wlk, twin, pair>>

SimRenderCall ==
    /\ cls = "sim"
    /\ calls < MaxCalls
    /\ LET r == SimRender(sim)
       IN  sim' = r.env /\ ret' = r.ret /\ hist' = Record(r.ret)
    /\ calls' = calls + 1
    /\ UNCHANGED <<cls, instances, osc, ekf, wlk, twin, pair>>

WlkConstruct ==
    /\ cls = "none"
    /\ \E a \in WlkArgs : wlk' = WlkNew(a)
    /\ cls' = "wlk"
    /\ ret' = [NoRet EXCEPT !.op = "init"]
    /\ UNCHANGED <<instances, osc, ekf, sim, hist, calls, twin, pair>>

WlkStepCall ==
    /\ cls = "wlk"
    /\ calls < MaxCalls
    /\ \E action \in WlkActions, z \in WlkHostZ, x_velocity \in WlkHostVel :
         LET r == WlkStep(wlk, action, z, x_velocity)
         IN  /\ wlk' = r.env /\ ret' = r.ret /\ hist' = Record(r.ret)
             /\ twin' = IF twin.on
                        THEN Replay(WlkHostStep(twin.env, action, z, x_velocity))
                        ELSE twin
    /\ calls' = calls + 1
    /\ UNCHANGED <<cls, instances, osc, ekf, sim, pair>>

WlkResetCall ==
    /\ cls = "wlk"
    /\ calls < MaxCalls
    /\ \E seed \in SeedArgs, e \in EntropySeeds :
         LET r == WlkReset(wlk, seed, e)
         IN  /\ wlk' = r.env /\ ret' = r.ret /\ hist' = Record(r.ret)
             /\ twin' = IF seed # NoSeed
                        THEN Replay(WlkHostReset(WlkNew(wlk.cfg), seed, e))
                        ELSE NoTwin
    /\ calls' = calls + 1
    /\ UNCHANGED <<cls, instances, osc, ekf, sim, pair>>

Next ==
    \/ OscConstruct \/ OscStepCall \/ OscResetCall \/ OscRenderCall
    \/ EkfConstruct \/ EkfStepCall \/ EkfResetCall \/ EkfRenderCall
    \/ SimConstruct \/ SimStepCall \/ SimResetCall \/ SimRenderCall
    \/ WlkConstruct \/ WlkStepCall \/ WlkResetCall

Spec == Init /\ [][Next]_vars

\* ------------------------------------------------------------- long runs
\* One Oscillator with the default arguments, reset once with the default
\* bounds and then stepped many times with the first control at its upper
\* bound and the third at (or beyond) its lower bound.
LongActions == {<<500, 0, -500>>, <<500, 0, -900>>}

LongConstruct ==
    /\ cls = "none"
    /\ cls' = "osc"
    /\ instances' = instances + 1
    /\ osc' = OscNew(OscDefaults, instances + 1)
    /\ ret' = [NoRet EXCEPT !.op = "init"]
    /\ UNCHANGED <<ekf, sim, wlk, hist, calls, twin, pair>>

LongReset ==
    /\ cls = "osc"
    /\ osc.state = None
    /\ \E seed \in SeedArgs, random \in BOOLEAN, e \in EntropySeeds :
         LET r == OscReset(osc, seed, NoOptions, random, e)
         IN  osc' = r.env /\ ret' = r.ret /\ hist' = Record(r.ret)
    /\ calls' = calls + 1
    /\ UNCHANGED <<cls, instances, ekf, sim, wlk, twin, pair>>

LongStep ==
    /\ cls = "osc"
    /\ osc.state # None
    /\ calls < MaxLongSteps
    /\ \E action \in LongActions, e \in EntropySeeds :
         LET r == OscStep(osc, action, e)
         IN  osc' = r.env /\ ret' = r.ret /\ hist' = Record(r.ret)
    /\ calls' = calls + 1
    /\ UNCHANGED <<cls, instances, ekf, sim, wlk, twin, pair>>

NextLong == LongConstruct \/ LongReset \/ LongStep

SpecLong == Init /\ [][NextLong]_vars

\* ---------------------------------------------------------- two instances
MaxPairCalls == 4
PairArgs ==
    { OscDefaults,
      [OscDefaults EXCEPT !.delta = <<400, 400, 400, 800, 800, 800>>],
      [OscDefaults EXCEPT !.reference_amplitude = 0,
                          !.exclude_reference_from_observation = TRUE] }
PairBadArgs ==
    { [OscDefaults EXCEPT !.reference_frequency = -5],
      [OscDefaults EXCEPT !.exclude_reference_from_observation = TRUE],
      [OscDefaults EXCEPT !.reference_frequency = -5, !.reference_amplitude = 0,
                          !.exclude_reference_from_observation = TRUE] }
PairActions == {<<0, 0, 0>>, <<700, -900, 0>>}

\* Variant: the state vector is an attribute of the class.
OscStoreShared(insts, i, env) ==
    [j \in DOMAIN insts |->
       IF j = i THEN env ELSE [insts[j] EXCEPT !.state = env.state]]
\* self.<attribute> = ...: an assignment writes the instance it is made on.
OscStore(insts, i, env) == [insts EXCEPT ![i] = env]

\* Oscillator(**args) for the next instance: the class counter gives its id;
\* a rejected construction raises before the counter moves.
PairConstruct ==
    /\ cls \in {"none", "pair"}
    /\ pair.n < 2
    /\ \E a \in PairArgs \cup PairBadArgs :
         IF OscArgsValid(a)
         THEN /\ pair' = [pair EXCEPT
                            !.n = @ + 1, !.last = pair.n + 1,
                            !.args = a, !.rejected = FALSE,
                            !.inst = OscStore(@, pair.n + 1, OscNew(a, instances + 1)),
                            !.solo[pair.n + 1] = OscNew(a, 1)]
              /\ instances' = instances + 1
         ELSE /\ pair' = [pair EXCEPT !.last = 0, !.args = a, !.rejected = TRUE]
              /\ instances' = instances
    /\ cls' = "pair"
    /\ UNCHANGED <<osc, ekf, sim, wlk, ret, hist, calls, twin>>

PairStep ==
    /\ cls = "pair"
    /\ calls < MaxPairCalls
    /\ \E i \in 1..pair.n, action \in PairActions, e \in EntropySeeds :
         LET r == OscStep(pair.inst[i], action, e)
             q == OscStep(pair.solo[i], action, e)
         IN  pair' = [pair EXCEPT !.last = i,
                                  !.inst = OscStore(@, i, r.env), !.out[i] = r.ret,
                                  !.solo[i] = q.env, !.soloOut[i] = q.ret]
    /\ calls' = calls + 1
    /\ UNCHANGED <<cls, instances, osc, ekf, sim, wlk, ret, hist, twin>>

PairReset ==
    /\ cls = "pair"
    /\ calls < MaxPairCalls
    /\ \E i \in 1..pair.n, seed \in SeedArgs, e \in EntropySeeds :
         LET r == OscReset(pair.inst[i], seed, NoOptions, TRUE, e)
             q == OscReset(pair.solo[i], seed, NoOptions, TRUE, e)
         IN  pair' = [pair EXCEPT !.last = i,
                                  !.inst = OscStore(@, i, r.env), !.out[i] = r.ret,
                                  !.solo[i] = q.env, !.soloOut[i] = q.ret]
    /\ calls' = calls + 1
    /\ UNCHANGED <<cls, instances, osc, ekf, sim, wlk, ret, hist, twin>>

NextTwo == PairConstruct \/ PairStep \/ PairReset

SpecTwo == Init /\ [][NextTwo]_vars

\* ---------------------------------------------------------------- claims
IsCall == calls' = calls + 1
OscOutOfBounds(action) == \E i \in 1..3 : action[i] < -500 \/ action[i] > 500
EkfOutOfBounds(action) == \E i \in 1..2 : action[i] < -1000 \/ action[i] > 1000

\* C1: a step of the Oscillator or of either Ex3EKF returns terminated = TRUE
\* exactly when its cost is below 0 or above 100; a cost of exactly 0 or
\* exactly 100 does not terminate.
C1_TerminatedIffOutsideBand ==
    (cls \in {"osc", "ekf", "sim"} /\ ret.op = "step" /\ ret.ok)
      => (ret.terminated <=> (ret.cost < 0 \/ ret.cost > 100 * S))
C1_Witness ==
    cls = "osc" /\ ret.op = "step" /\ ret.ok /\ ret.cost = 100 * S /\ ~ret.terminated

\* C2: after any reset and steps of the Oscillator, with any actions and noise
\* magnitudes, all six concentrations are >= 0 in the stored state and in the
\* returned observation (the clamp comes after the noise).
C2_ConcentrationsNonNegative ==
    cls = "osc" =>
      /\ osc.state # None => \A i \in 1..6 : osc.state[i] >= 0
      /\ (ret.op \in {"reset", "step"} /\ ret.ok) => \A i \in 1..6 : ret.obs[i] >= 0
C2_Witness ==
    /\ cls = "osc" /\ ret.op = "step" /\ ret.ok
    /\ osc.delta[4] > 0 /\ osc.state[4] = 0 /\ ret.obs[4] = 0

\* C3: a step on an Oscillator or Ex3EKF instance on which reset was never
\* called fails, and leaves the state unset and the elapsed time at 0.
C3_StepBeforeResetFails ==
    [][(cls \in {"osc", "ekf"} /\ hist.resets = 0 /\ IsCall /\ ret'.op = "step")
         => /\ ~ret'.ok
            /\ cls = "osc" => (osc'.state = None /\ osc'.t = 0)
            /\ cls = "ekf" => (ekf'.state = None /\ ekf'.t = 0)]_vars
C3_Witness ==
    /\ cls = "osc" /\ hist.resets = 0 /\ ret.op = "step" /\ ~ret.ok
    /\ osc.state = None /\ osc.t = 0

\* C4: an Oscillator reset with a bound outside the observation space fails
\* and leaves the state, the elapsed time and the random source as they were,
\* also when a seed is passed.
C4_FailedResetChangesNothing ==
    [][(cls = "osc" /\ IsCall /\ ret'.op = "reset" /\ ~ret'.ok)
         => (osc'.state = osc.state /\ osc'.t = osc.t /\ osc'.rng = osc.rng)]_vars

\* C5: in the Oscillator and the stable_gym Ex3EKF the elapsed time is the
\* number of successful steps since the last reset times dt (0 right after a
\* reset); a failed step does not advance it.
C5_TimeIsStepsTimesDt ==
    /\ cls = "osc" => osc.t = hist.steps * S
    /\ cls = "ekf" => 10 * ekf.t = hist.steps * S
C5_Witness ==
    cls = "osc" /\ hist.resets >= 2 /\ hist.steps >= 1 /\ ret.op = "step" /\ ret.ok

\* C6: with clip_action the Oscillator accepts every action and steps as it
\* would on the action clipped to [-5, 5] (same next state, cost and
\* terminated flag); without it an out-of-bounds action fails the assertion
\* and leaves state and elapsed time unchanged.
C6_ClipOrReject ==
    [][(cls = "osc" /\ IsCall /\ ret'.op = "step")
         => IF osc.clip
            THEN /\ osc.state # None => ret'.ok
                 /\ \E e \in EntropySeeds :
                      LET r == OscStep(osc, OscClip(ret'.action), e)
                      IN  /\ r.env.state = osc'.state
                          /\ r.env.t = osc'.t
                          /\ r.ret.ok = ret'.ok
                          /\ r.ret.cost = ret'.cost
                          /\ r.ret.terminated = ret'.terminated
            ELSE /\ ~ret'.warn
                 /\ OscOutOfBounds(ret'.action)
                      => (~ret'.ok /\ osc'.state = osc.state /\ osc'.t = osc.t)]_vars
C6_Witness ==
    /\ cls = "osc" /\ osc.clip /\ ret.op = "step" /\ ret.ok
    /\ OscOutOfBounds(ret.action)

\* C7: with clipping enabled, an Ex3EKF instance logs the action-clipped
\* warning at most once, whatever side the actions leave the bounds on.
C7_EkfWarnsAtMostOnce == cls = "ekf" => ekf.nwarn <= 1

\* C8: with clipping enabled, an Oscillator instance logs the action-clipped
\* warning at most once: the first out-of-bounds step sets the flag, no reset
\* or step clears it, and an in-bounds action never warns.
C8_OscWarnsAtMostOnce ==
    /\ [](cls = "osc" =>
            /\ osc.nwarn <= 1
            /\ osc.warned <=> osc.nwarn = 1
            /\ ret.op = "step" =>
                 /\ ~OscOutOfBounds(ret.action) => ~ret.warn
                 /\ (osc.clip /\ OscOutOfBounds(ret.action)) => osc.warned)
    /\ [][(cls = "osc" /\ osc.warned) => osc'.warned]_vars
C8_Witness ==
    /\ cls = "osc" /\ hist.resets >= 1 /\ ret.op = "step" /\ ret.ok
    /\ OscOutOfBounds(ret.action) /\ ~ret.warn /\ osc.nwarn = 1

\* C9: with clipping disabled, an Ex3EKF step whose action lies outside
\* [-10, 10] is rejected and does not change the state.
C9_EkfRejectsOutOfBounds ==
    [][(cls = "ekf" /\ ~ekf.clipped /\ IsCall /\ ret'.op = "step"
          /\ EkfOutOfBounds(ret'.action))
         => (~ret'.ok /\ ekf'.state = ekf.state)]_vars

\* C10: the cost a step returns is >= 0: always in the Oscillator and both
\* Ex3EKF, and in Walker2dCost when forward_velocity_weight, ctrl_cost_weight
\* and health_penalty_size are non-negative.
WlkWeightsNonNegative ==
    /\ wlk.cfg.forward_velocity_weight >= 0
    /\ wlk.cfg.ctrl_cost_weight >= 0
    /\ wlk.cfg.health_penalty_size >= 0
C10_CostNonNegative ==
    (ret.op = "step" /\ ret.ok
       /\ (cls \in {"osc", "ekf", "sim"} \/ (cls = "wlk" /\ WlkWeightsNonNegative)))
      => ret.cost >= 0
C10_Witness ==
    /\ cls = "wlk" /\ WlkWeightsNonNegative /\ ret.op = "step" /\ ret.ok
    /\ wlk.cfg.include_ctrl_cost /\ ret.info.cost_ctrl > 0 /\ ret.cost > 0

\* C11: every info returned by a reset or a step of the stable_gym Ex3EKF
\* holds the reference, a state of interest and the signed reference error.
InfoKeys == {"reference", "state_of_interest", "reference_error"}
C11_EkfInfoHasThreeFields ==
    (cls = "ekf" /\ ret.op \in {"reset", "step"} /\ ret.ok)
      => InfoKeys \subseteq DOMAIN ret.info

\* C12: every info returned by a reset or a step of the Oscillator and of
\* Walker2dCost holds reference, state_of_interest and reference_error with
\* reference_error = state_of_interest - reference; the cost of an Oscillator
\* step is reference_error squared, the reference being taken at the elapsed
\* time after the step.
C12_InfoErrorIsSignedDifference ==
    /\ (cls \in {"osc", "wlk"} /\ ret.op \in {"reset", "step"} /\ ret.ok)
         => /\ InfoKeys \subseteq DOMAIN ret.info
            /\ ret.info.reference_error
                 = ret.info.state_of_interest - ret.info.reference
    /\ (cls = "osc" /\ ret.op \in {"reset", "step"} /\ ret.ok)
         => /\ ret.info.reference = OscReference(osc, osc.t)
            /\ ret.info.state_of_interest = osc.state[4]
    /\ (cls = "osc" /\ ret.op = "step" /\ ret.ok)
         => ret.cost = Square(ret.info.reference_error)
C12_Witness ==
    /\ cls = "osc" /\ ret.op = "step" /\ ret.ok /\ osc.t = 2 * OscDt
    /\ ret.info.reference # osc.target
    /\ ret.info.reference_error < 0 /\ ret.cost > 0

\* C13: after a reset of an Oscillator or Ex3EKF instance with a seed, every
\* step returns the same observation, cost, terminated flag and info as the
\* same seeded reset and actions return on a newly constructed instance,
\* whatever resets and steps the instance went through before.
C13_SeededRunRepeats ==
    (cls \in {"osc", "ekf"} /\ twin.on)
      => /\ ret.ok = twin.ret.ok
         /\ ret.obs = twin.ret.obs
         /\ ret.cost = twin.ret.cost
         /\ ret.terminated = twin.ret.terminated
         /\ ret.truncated = twin.ret.truncated
         /\ ret.info = twin.ret.info
C13_Witness ==
    /\ cls = "osc" /\ twin.on /\ hist.resets >= 2 /\ hist.steps >= 1
    /\ ret.op = "step" /\ ret.ok /\ osc.delta[4] > 0
    /\ osc.warned /\ ~twin.env.warned

\* C14: with zero noise one Oscillator step takes (m1,m2,m3,p1,p2,p3) and the
\* clipped action (u1,u2,u3) to
\*   m_i' = max(0, m_i + (-gamma_i m_i + a_i / (K_i + p_j^2) + b_i u_i) dt),
\*   p_i' = max(0, p_i + (-c_i p_i + beta_i m_i) dt),
\* with p3 -> m1, p1 -> m2, p2 -> m3, every derivative taken on the values
\* before the step.
EulerM(m, p, u, gamma, a, K, b) ==
    Max0(m + Mul(0 - Mul(gamma, m) + Div(a, K + Square(p)) + Mul(b, u), OscDt))
EulerP(p, m, c, beta) == Max0(p + Mul(0 - Mul(c, p) + Mul(beta, m), OscDt))
EulerStep(st, u) ==
    <<EulerM(st[1], st[6], u[1], gamma1, a1, K1, b1),
      EulerM(st[2], st[4], u[2], gamma2, a2, K2, b2),
      EulerM(st[3], st[5], u[3], gamma3, a3, K3, b3),
      EulerP(st[4], st[1], c1, beta1),
      EulerP(st[5], st[2], c2, beta2),
      EulerP(st[6], st[3], c3, beta3)>>
C14_ExplicitEuler ==
    [][(cls = "osc" /\ IsCall /\ ret'.op = "step" /\ ret'.ok
          /\ \A i \in 1..6 : osc.delta[i] = 0)
         => osc'.state = EulerStep(osc.state, OscClip(ret'.action))]_vars
C14_Witness ==
    /\ cls = "osc" /\ ret.op = "step" /\ ret.ok /\ hist.steps = 2
    /\ \A i \in 1..6 : osc.delta[i] = 0
    /\ ret.action = <<700, -900, 0>>
    /\ osc.state[2] = 0 /\ osc.state[1] > 0

\* C15: the Ex3EKF estimator update is a choice on the packet indicator of
\* the step.  With missing_rate = 0 the indicator is always 1 and the step
\* applies the corrected update (gains u1, u2 times the innovation
\* y_1 - hat_y_1); on a dropped packet the update is the open-loop prediction,
\* which is the corrected update with u1 = u2 = 0 whatever the action.
Corrected(st, u, y_1, t) ==
    LET hat_y_1 == Sin(st[1] + Mul(EkfDt, st[2]))
        hat_x_1 == st[1] + Mul(EkfDt, st[2]) + Mul(Mul(EkfDt, u[1]), y_1 - hat_y_1)
        hat_x_2 == st[2] - Mul(Mul(g, Sin(hat_x_1)), EkfDt)
                     + Mul(Mul(EkfDt, u[2]), y_1 - hat_y_1) + EkfInput(t)
    IN  <<hat_x_1, hat_x_2>>
EstimatorFollows(env, env2, u) ==
    LET hat == <<env2.state[1], env2.state[2]>>
        y_1 == env2.output[1]
    IN  /\ env2.flag \in {<<0>>, <<1>>}
        /\ env.missing_rate = 0 => env2.flag = <<1>>
        /\ env2.flag = <<1>> => hat = Corrected(env.state, u, y_1, env.t)
        /\ env2.flag = <<0>> => hat = Corrected(env.state, <<0, 0>>, y_1, env.t)
C15_TwoBranchEstimator ==
    [][(IsCall /\ ret'.op = "step" /\ ret'.ok)
         => /\ cls = "ekf" => EstimatorFollows(ekf, ekf', EkfControl(ekf, ret'.action))
            /\ cls = "sim" => EstimatorFollows(sim, sim', ret'.action)]_vars
C15_Witness ==
    /\ cls = "ekf" /\ ret.op = "step" /\ ret.ok /\ ekf.flag = <<0>>
    /\ ret.action = <<1000, -1000>>

\* C16: for every combination of the two exclude flags, the observation of
\* an Oscillator reset or step has as many entries as the declared observation
\* space: the six state components, then the reference if included, then the
\* reference error if included, laid out the same way in reset and step.
C16_ObservationLayout ==
    (cls = "osc" /\ ret.op \in {"reset", "step"} /\ ret.ok)
      => LET n == Len(ret.obs)
             r == IF osc.exR THEN 0 ELSE 1
             e == IF osc.exE THEN 0 ELSE 1
         IN  /\ n = Len(OscObsSpaceLow(osc)) /\ n = Len(OscObsSpaceHigh(osc))
             /\ n = 6 + r + e
             /\ \A i \in 1..6 : ret.obs[i] = osc.state[i]
             /\ r = 1 => ret.obs[7] = ret.info.reference
             /\ e = 1 => ret.obs[7 + r] = ret.info.reference_error
C16_Witness ==
    /\ cls = "osc" /\ ret.op = "step" /\ ret.ok /\ ~osc.exR /\ ~osc.exE
    /\ Len(ret.obs) = 8 /\ ret.obs[7] # ret.obs[8]

\* C17: with the default arguments, after a reset with the default bounds and
\* any steps with any actions, every Oscillator observation lies within the
\* declared observation space: state components and reference in [0, 100].
C17_ObservationWithinSpace ==
    (cls = "osc" /\ ret.op \in {"reset", "step"} /\ ret.ok)
      => BoxContains(ret.obs, OscObsSpaceLow(osc), OscObsSpaceHigh(osc))

\* C18: the Oscillator and the stable_gym Ex3EKF do not latch termination: a
\* step made after a step that returned terminated = TRUE succeeds like any
\* other (state replaced, time advanced by dt), its terminated flag follows
\* from its own cost alone, and truncated is FALSE in every step result.
C18_TerminationNotLatched ==
    /\ []((cls \in {"osc", "ekf"} /\ ret.op = "step" /\ ret.ok) => ~ret.truncated)
    /\ [][(cls = "osc" /\ hist.term /\ IsCall /\ ret'.op = "step"
             /\ OscActionAccepted(osc, ret'.action))
            => /\ ret'.ok
               /\ osc'.t = osc.t + OscDt
               /\ osc'.state = SubSeq(ret'.obs, 1, 6)
               /\ ret'.terminated <=> (ret'.cost < 0 \/ ret'.cost > 100 * S)]_vars
    /\ [][(cls = "ekf" /\ hist.term /\ IsCall /\ ret'.op = "step")
            => /\ ret'.ok
               /\ 10 * ekf'.t = 10 * ekf.t + S
               /\ ekf'.state = ret'.obs
               /\ ret'.terminated <=> (ret'.cost < 0 \/ ret'.cost > 100 * S)]_vars
C18_Witness ==
    /\ cls \in {"osc", "ekf"} /\ hist.term /\ ret.op = "step" /\ ret.ok
    /\ ~ret.terminated

\* C19: two Oscillator instances driven in any interleaving of reset and step
\* calls do not interact: each one's state, elapsed time, warning flag and
\* outputs are those it has when driven alone with the same calls.  The one
\* shared value, the class counter, changes only at a construction, and a
\* call on one instance leaves the other instance as it was.
C19_InstancesDoNotInteract ==
    /\ [](\A i \in 1..pair.n :
            /\ pair.inst[i].state = pair.solo[i].state
            /\ pair.inst[i].t = pair.solo[i].t
            /\ pair.inst[i].warned = pair.solo[i].warned
            /\ pair.out[i] = pair.soloOut[i])
    /\ [][/\ instances' # instances => pair'.n = pair.n + 1
          /\ \A j \in 1..pair.n : j # pair'.last => pair'.inst[j] = pair.inst[j]]_vars
C19_Witness ==
    /\ pair.n = 2
    /\ pair.inst[1].warned /\ ~pair.inst[2].warned
    /\ pair.out[1].op = "step" /\ pair.out[1].ok
    /\ pair.out[2].op = "step" /\ pair.out[2].ok /\ pair.last = 2
    /\ pair.inst[1].state # pair.inst[2].state
    /\ pair.inst[2].instance_id = 2 /\ pair.solo[2].instance_id = 1

\* C20: render on an Oscillator or on either Ex3EKF, before or after a reset,
\* raises NotImplementedError and changes neither the state nor the elapsed
\* time.
C20_RenderNotImplemented ==
    [][(IsCall /\ ret'.op = "render")
         => /\ ~ret'.ok /\ ret'.err = "NotImplementedError"
            /\ osc' = osc /\ ekf' = ekf /\ sim' = sim]_vars
C20_Witness ==
    /\ cls = "osc" /\ ret.op = "render" /\ ~ret.ok
    /\ osc.state # None /\ osc.t = 2 * OscDt

\* C21: a Walker2dCost step returns terminated = TRUE when its cost is below
\* 0 or above 100, and also whenever the host ends the episode because the
\* walker is unhealthy (with terminate_when_unhealthy).
C21_WlkTerminatesOutsideBand ==
    (cls = "wlk" /\ ret.op = "step" /\ ret.ok)
      => (ret.terminated
            <=> (ret.cost < RewardLow \/ ret.cost > RewardHigh \/ WlkHostTerminated(wlk)))

\* C22: Walker2dCost.cost is forward_velocity_weight * (x_velocity -
\* reference_forward_velocity)^2, plus the control cost exactly when
\* include_ctrl_cost is set, plus health_penalty_size exactly when
\* include_health_penalty is set and the walker is not healthy; its info
\* satisfies cost = cost_velocity + (cost_ctrl if included) + penalty_health,
\* and penalty_health is 0 when the walker is healthy or the penalty is off.
C22_WlkCostTerms ==
    /\ (cls = "wlk" /\ ret.op = "step" /\ ret.ok)
         => LET i == ret.info
                c == wlk.cfg
                penalised == c.include_health_penalty /\ ~WlkIsHealthy(wlk)
            IN  /\ i.cost_velocity
                     = (c.forward_velocity_weight
                          * (((i.state_of_interest - wlk.reference_forward_velocity)
                              * (i.state_of_interest - wlk.reference_forward_velocity))
                             \div S)) \div S
                /\ i.cost_ctrl = Mul(c.ctrl_cost_weight, SumSquares(ret.action))
                /\ i.penalty_health = IF penalised THEN c.health_penalty_size ELSE 0
                /\ ret.cost = i.cost_velocity
                                + (IF c.include_ctrl_cost THEN i.cost_ctrl ELSE 0)
                                + i.penalty_health
    /\ (cls = "wlk" /\ ret.op = "reset" /\ ret.ok)
         => (ret.info.penalty_health = 0 /\ ret.info.cost_ctrl = 0)
C22_Witness ==
    /\ cls = "wlk" /\ ret.op = "step" /\ ret.ok
    /\ wlk.cfg.include_ctrl_cost /\ ret.info.cost_ctrl > 0
    /\ ret.info.penalty_health > 0 /\ ret.info.cost_velocity > 0
    /\ ret.cost = ret.info.cost_velocity + ret.info.cost_ctrl + ret.info.penalty_health

\* C23: the reference forward velocity of Walker2dCost changes only at a
\* reset and only with randomise_reference_forward_velocity: it is then
\* redrawn within the configured range; a step never changes it, and without
\* randomisation it keeps its constructor value.
C23_ReferenceChangesOnlyAtRandomReset ==
    /\ [](cls = "wlk" =>
            \/ wlk.cfg.randomise_reference_forward_velocity
            \/ wlk.reference_forward_velocity = wlk.cfg.reference_forward_velocity)
    /\ [][(cls = "wlk" /\ IsCall)
            => LET ref == wlk.reference_forward_velocity
                   range == wlk.cfg.randomise_reference_forward_velocity_range
               IN  IF ret'.op = "reset" /\ wlk.cfg.randomise_reference_forward_velocity
                   THEN /\ range[1] <= ref' /\ ref' <= range[2]
                        /\ wlk'.rng.pos \in {3, wlk.rng.pos + 3}
                   ELSE ref' = ref]_vars
C23_Witness ==
    /\ cls = "wlk" /\ wlk.cfg.randomise_reference_forward_velocity
    /\ ret.op = "step" /\ hist.resets >= 2
    /\ wlk.reference_forward_velocity # wlk.cfg.reference_forward_velocity

\* C24: Walker2dCost behaves like the host environment for the same seed and
\* actions: at the reset and at every step its observation without the
\* appended entries (reference, reference error, x velocity, as enabled) is
\* the host's observation, and terminated and truncated are the host's.
Appended(c) ==
    (IF c.exclude_reference_from_observation THEN 0 ELSE 1)
      + (IF c.exclude_reference_error_from_observation THEN 0 ELSE 1)
      + (IF c.exclude_x_velocity_from_observation THEN 0 ELSE 1)
C24_WlkFollowsHost ==
    (cls = "wlk" /\ twin.on)
      => /\ ret.op = twin.ret.op
         /\ Len(ret.obs) = Len(twin.ret.obs) + Appended(wlk.cfg)
         /\ SubSeq(ret.obs, 1, Len(ret.obs) - Appended(wlk.cfg)) = twin.ret.obs
         /\ ret.terminated = twin.ret.terminated
         /\ ret.truncated = twin.ret.truncated
C24_Witness ==
    /\ cls = "wlk" /\ twin.on /\ ret.op = "step" /\ hist.resets >= 2
    /\ wlk.cfg.randomise_reference_forward_velocity
    /\ ret.terminated /\ Len(ret.obs) = 4

\* C25: constructing an Oscillator succeeds exactly when reference_frequency
\* >= 0 and (reference_amplitude = 0 or reference_frequency = 0 or not both
\* the reference and the reference error are excluded); a rejected
\* construction leaves the class counter as it was, so the instances
\* constructed get the ids 1, 2, ...
C25_ConstructionAcceptedIff ==
    /\ [](instances = pair.n /\ \A i \in 1..pair.n : pair.inst[i].instance_id = i)
    /\ [][(pair'.n # pair.n \/ pair'.args # pair.args \/ pair'.rejected # pair.rejected)
            => LET a == pair'.args
                   accepted ==
                     /\ a.reference_frequency >= 0
                     /\ \/ a.reference_amplitude = 0
                        \/ a.reference_frequency = 0
                        \/ ~a.exclude_reference_from_observation
                        \/ ~a.exclude_reference_error_from_observation
               IN  IF accepted
                   THEN /\ ~pair'.rejected /\ pair'.n = pair.n + 1
                        /\ instances' = instances + 1
                        /\ pair'.inst[pair'.n].instance_id = instances'
                   ELSE /\ pair'.rejected /\ pair'.n = pair.n
                        /\ instances' = instances
                        /\ pair'.inst = pair.inst]_vars
C25_Witness ==
    /\ pair.n = 1 /\ pair.rejected /\ instances = 1
    /\ pair.args.reference_frequency < 0 /\ pair.args.reference_amplitude = 0
    /\ pair.inst[1].exR /\ pair.inst[1].exE /\ pair.inst[1].t > 0

\* C26: after every reset of the stable_gym Ex3EKF all four observation
\* components (estimated angle and frequency, actual angle and frequency) lie
\* in [-0.05, 0.05].
C26_EkfResetNearZero ==
    (cls = "ekf" /\ ret.op = "reset" /\ ret.ok)
      => \A i \in 1..4 : -5 <= ret.obs[i] /\ ret.obs[i] <= 5

\* C27: a step of either Ex3EKF advances x_1, x_2, hat_x_1 and hat_x_2 by one
\* explicit Euler step: each derivative is evaluated on the values the state
\* had before the step, never on a component the same step already updated.
DrawsOfStep(env2) == [env2.rng EXCEPT !.pos = @ - 4]
ExplicitEuler(st, u, y_1, flag, t, rng) ==
    LET hat_y_1 == Sin(st[1] + Mul(EkfDt, st[2]))
        c == IF flag = <<1>> THEN y_1 - hat_y_1 ELSE 0
        x_1 == st[3] + Mul(EkfDt, st[4])
        x_2 == st[4] - Mul(Mul(Mul(g, l_net), Sin(st[3])), EkfDt) + EkfInput(t)
        hat_x_1 == st[1] + Mul(EkfDt, st[2]) + Mul(Mul(EkfDt, u[1]), c)
        hat_x_2 == st[2] - Mul(Mul(g, Sin(st[1])), EkfDt)
                     + Mul(Mul(EkfDt, u[2]), c) + EkfInput(t)
    IN  <<hat_x_1, hat_x_2,
          x_1 + Normal(rng, 0, mean1[1], EkfStd1),
          x_2 + Normal(rng, 1, mean1[2], EkfStd2)>>
C27_EkfExplicitEuler ==
    [][(IsCall /\ ret'.op = "step" /\ ret'.ok)
         => /\ cls = "ekf" =>
                 ekf'.state = ExplicitEuler(ekf.state, EkfControl(ekf, ret'.action),
                                            ekf'.output[1], ekf'.flag, ekf.t,
                                            DrawsOfStep(ekf'))
            /\ cls = "sim" =>
                 sim'.state = ExplicitEuler(sim.state, ret'.action, sim'.output[1],
                                            sim'.flag, sim.t, DrawsOfStep(sim'))]_vars

\* C28: in the simzoo Ex3EKF, reset sets the elapsed time back to zero, so
\* after a reset followed by n steps the time is n * dt.
C28_SimResetZeroesTime ==
    (cls = "sim" /\ hist.resets > 0 /\ ret.ok /\ ret.op \in {"reset", "step"})
      => sim.t = hist.steps * EkfDt

\* C29: in every info returned by a Walker2dCost reset or step the velocity
\* cost agrees with the reference reported beside it: reference_error is
\* state_of_interest - reference and cost_velocity is forward_velocity_weight
\* times its square, also after a reset that redraws the reference.
C29_WlkInfoConsistent ==
    (cls = "wlk" /\ ret.ok /\ ret.op \in {"reset", "step"})
      => /\ ret.info.reference_error
              = ret.info.state_of_interest - ret.info.reference
         /\ ret.info.cost_velocity
              = Mul(wlk.cfg.forward_velocity_weight, Square(ret.info.reference_error))

\* C30: the action never influences the master system of either Ex3EKF. From
\* the same master state, time and random draws, a step with any other action
\* (and any other estimate or warning flag, so that the argument carries over
\* whole action sequences) yields the same x_1, x_2, y_1, time and random
\* position; only the estimate, the cost and terminated can differ.
MasterOf(env) ==
    [x_1 |-> env.state[3], x_2 |-> env.state[4], y_1 |-> env.output,
     t |-> env.t, rng |-> env.rng]
OtherEstimates(env) == {<<env.state[1], env.state[2]>>, <<0, 0>>, <<157, -78>>}
SameMaster(r, env2, res) ==
    /\ r.ret.ok
    /\ MasterOf(r.env) = MasterOf(env2)
    /\ r.ret.obs[3] = res.obs[3] /\ r.ret.obs[4] = res.obs[4]
    /\ r.ret.info.reference = res.info.reference
C30_ActionLeavesMasterAlone ==
    [][(IsCall /\ ret'.op = "step" /\ ret'.ok)
         => /\ cls = "ekf" =>
                 \A other \in EkfActions, h \in OtherEstimates(ekf), w \in BOOLEAN,
                    e \in EntropySeeds :
                   SameMaster(EkfStep([ekf EXCEPT !.state = <<h[1], h[2], @[3], @[4]>>,
                                                  !.warned = w], other, e),
                              ekf', ret')
            /\ cls = "sim" =>
                 \A other \in EkfActions, h \in OtherEstimates(sim) :
                   SameMaster(SimStep([sim EXCEPT !.state = <<h[1], h[2], @[3], @[4]>>],
                                      other),
                              sim', ret')]_vars
\* Second step of an episode, taken with a large action, from whose result
\* two actions lead to different estimates and costs.
C30_Witness ==
    /\ cls = "ekf" /\ ret.op = "step" /\ ret.ok /\ hist.steps >= 2
    /\ ret.action = <<1000, -1000>>
    /\ \E e \in EntropySeeds :
         LET r1 == EkfStep(ekf, <<0, 0>>, e)
             r2 == EkfStep(ekf, <<1000, -1000>>, e)
         IN  /\ r1.ret.obs[1] # r2.ret.obs[1]
             /\ r1.ret.cost # r2.ret.cost
             /\ r1.ret.obs[3] = r2.ret.obs[3]

====
